---- MODULE Spec2Model ----
(***************************************************************************)
(* Model of CodeCollector's interactive hierarchical file selector:        *)
(* TreeNode (src/codecollector/models.py) and InteractiveSelector          *)
(* (src/codecollector/selector.py).                                        *)
(*                                                                         *)
(* A path is the tuple of its parts (pathlib's Path.parts); a tree is a    *)
(* function from the path of a node to the node's attributes, the          *)
(* children attribute holding the ordered list of the children's paths.    *)
(***************************************************************************)
EXTENDS Integers, Sequences, FiniteSets, TLC

VARIABLES
    files,          \* InteractiveSelector.files: the candidate list
    saved_files,    \* __init__ argument saved_files
    saved_folders,  \* __init__ argument saved_folders
    tree,           \* the nodes reachable from InteractiveSelector.tree_root
    current_pos,    \* InteractiveSelector.current_pos
    page_size,      \* InteractiveSelector.page_size
    current_page,   \* InteractiveSelector.current_page
    search_term,    \* InteractiveSelector.search_term
    pc,             \* position of the caller / of run()
    key,            \* the local `key` of run()
    frame_shown,    \* TRUE once _display_tree has been called
    all_files,      \* the local all_files of the last _display_tree: the
                    \* selected files the frame on the screen reports
    key_read,       \* TRUE once KeyboardHandler.get_key has been called
    result,         \* the value run() returned
    candidate_path,     \* is_ignored_by_gitignore argument file_path
    gitignore_patterns, \* is_ignored_by_gitignore argument gitignore_patterns
    ignored,            \* the value is_ignored_by_gitignore returned
    scan_parent,    \* the directories above the root in root_path.resolve()
    skipped,        \* TRUE when the loop over file_path.parents returned False
    tty_queue,      \* the characters typed and not yet read from the terminal
    stdin_buffer,   \* the characters sys.stdin has read and not yet handed out
    full_seq,       \* the locals key + next_chars of _get_key_unix
    typed,          \* the number of characters typed so far
    other           \* a second selector fed the same keys: its kind, fields
                    \* and position (<<>> when there is none)

vars == <<files, saved_files, saved_folders, tree, current_pos, page_size,
          current_page, search_term, pc, key, frame_shown, all_files, key_read,
          result, candidate_path, gitignore_patterns, ignored, scan_parent,
          skipped, tty_queue, stdin_buffer, full_seq, typed, other>>

\* the variables of the ignore-pattern check
filter_vars == <<candidate_path, gitignore_patterns, ignored>>

\* the variables of the directory denylist check
denylist_vars == <<scan_parent, skipped>>

\* the variables of the key reader
reader_vars == <<tty_queue, stdin_buffer, full_seq, typed>>

----------------------------------------------------------------------------
(* Bounds of the model                                                      *)

\* page size used next to the program's own, so that the bounded trees
\* span several pages
ScaledPageSize == 2

\* largest number of entries in each saved set handed to __init__
MaxSaved == 2

\* largest number of patterns in a .gitignore handed to the pattern check
MaxPatterns == 2

----------------------------------------------------------------------------
(* Paths and names                                                          *)

root_path == <<"proj">>

NoKey == "None"

\* str.lower() on the names the model uses
lower(s) ==
    CASE s = "B" -> "b"
      [] s = "Z" -> "z"
      [] OTHER -> s

\* code point of the one-letter lower-case names
ord(s) ==
    CASE s = "a" -> 97
      [] s = "b" -> 98
      [] s = "c" -> 99
      [] s = "d" -> 100
      [] s = "x" -> 120
      [] s = "y" -> 121
      [] s = "z" -> 122
      [] s = "B" -> 66
      [] s = "Z" -> 90
      [] OTHER -> 0

\* Path.name: the last part
name(p) == p[Len(p)]

\* Path.relative_to(root).parts for a path under the root
relative_parts(p) == SubSeq(p, Len(root_path) + 1, Len(p))

\* path / part
join(p, part) == Append(p, part)

IsPrefix(p, q) == Len(p) <= Len(q) /\ SubSeq(q, 1, Len(p)) = p

\* '/'.join(parts[i:])
RECURSIVE slash_join(_, _)
slash_join(parts, i) ==
    IF i > Len(parts) THEN ""
    ELSE IF i = Len(parts) THEN parts[i]
    ELSE parts[i] \o "/" \o slash_join(parts, i + 1)

----------------------------------------------------------------------------
(* TreeNode                                                                 *)

\* parent is <<>> for None and <<path>> for a node
TreeNode(path, is_file, parent) ==
    [path |-> path, is_file |-> is_file, parent |-> parent,
     children |-> <<>>, selected |-> FALSE, expanded |-> ~is_file,
     visible |-> TRUE]

RECURSIVE get_selection_state(_, _)
get_selection_state(t, n) ==
    IF t[n].is_file
    THEN IF t[n].selected THEN "all" ELSE "none"
    ELSE IF t[n].children = <<>>
    THEN "none"
    ELSE LET selected_count ==
                 Cardinality({i \in DOMAIN t[n].children :
                     get_selection_state(t, t[n].children[i])
                         \in {"all", "partial"}})
         IN  IF selected_count = 0 THEN "none"
             ELSE IF selected_count = Len(t[n].children) THEN "all"
             ELSE "partial"

RECURSIVE set_selected_recursive(_, _, _)
RECURSIVE set_selected_children(_, _, _, _)
set_selected_children(t, kids, i, sel) ==
    IF i > Len(kids) THEN t
    ELSE set_selected_children(set_selected_recursive(t, kids[i], sel),
                               kids, i + 1, sel)

\* variant: only the files directly in the directory are set
set_selected_recursive_shallow(t, n, sel) ==
    IF t[n].is_file
    THEN [t EXCEPT ![n].selected = sel]
    ELSE [m \in DOMAIN t |->
             IF t[m].is_file /\ m \in {t[n].children[i] : i \in DOMAIN t[n].children}
             THEN [t[m] EXCEPT !.selected = sel]
             ELSE t[m]]

\* variant: the directory's own selected attribute is written as well
set_selected_recursive_marking_dirs(t, n, sel) ==
    IF t[n].is_file
    THEN [t EXCEPT ![n].selected = sel]
    ELSE set_selected_children([t EXCEPT ![n].selected = sel],
                               t[n].children, 1, sel)

set_selected_recursive(t, n, sel) ==
    IF t[n].is_file
    THEN [t EXCEPT ![n].selected = sel]
    ELSE set_selected_children(t, t[n].children, 1, sel)

RECURSIVE get_file_count(_, _)
RECURSIVE sum_file_count(_, _, _)
sum_file_count(t, kids, i) ==
    IF i > Len(kids) THEN 0
    ELSE get_file_count(t, kids[i]) + sum_file_count(t, kids, i + 1)

get_file_count(t, n) ==
    IF t[n].is_file THEN 1 ELSE sum_file_count(t, t[n].children, 1)

RECURSIVE get_selected_files(_, _)
RECURSIVE extend_selected_files(_, _, _)
extend_selected_files(t, kids, i) ==
    IF i > Len(kids) THEN <<>>
    ELSE get_selected_files(t, kids[i]) \o extend_selected_files(t, kids, i + 1)

\* variant: the selected flag of a file is not consulted
get_selected_files_any(t, n) ==
    IF t[n].is_file
    THEN <<t[n].path>>
    ELSE extend_selected_files(t, t[n].children, 1)

get_selected_files(t, n) ==
    IF t[n].is_file
    THEN IF t[n].selected THEN <<t[n].path>> ELSE <<>>
    ELSE extend_selected_files(t, t[n].children, 1)

----------------------------------------------------------------------------
(* InteractiveSelector: tree construction                                   *)

\* variant: a directory of the same name is never found
existing_dir_never(t, cur, part) == <<>>

\* the first child directory of cur whose name is part, as a list of at
\* most one path
existing_dir(t, cur, part) ==
    LET kids == t[cur].children
        hits == {i \in DOMAIN kids :
                     ~t[kids[i]].is_file /\ name(kids[i]) = part}
    IN  IF hits = {} THEN <<>>
        ELSE <<kids[CHOOSE i \in hits : \A j \in hits : i <= j]>>

\* children.append(node) on the node at path cur
append_child(t, cur, node) ==
    [(t @@ (node.path :> node)) EXCEPT ![cur].children = Append(@, node.path)]

\* the loop over parts[:-1] from index i on; yields the tree and the
\* directory node reached
RECURSIVE walk_parts(_, _, _, _)
walk_parts(t, cur, parts, i) ==
    IF i > Len(parts) - 1 THEN <<t, cur>>
    ELSE LET current_path == join(cur, parts[i])
             found == existing_dir(t, cur, parts[i])
         IN  IF found = <<>>
             THEN walk_parts(append_child(t, cur,
                                 TreeNode(current_path, FALSE, <<cur>>)),
                             current_path, parts, i + 1)
             ELSE walk_parts(t, found[1], parts, i + 1)

\* one iteration of the loop over self.files
insert_file(t, file_path) ==
    LET walked == walk_parts(t, root_path, relative_parts(file_path), 1)
    IN  append_child(walked[1], walked[2],
                     TreeNode(file_path, TRUE, <<walked[2]>>))

RECURSIVE insert_files(_, _, _)
insert_files(t, fs, k) ==
    IF k > Len(fs) THEN t
    ELSE insert_files(insert_file(t, fs[k]), fs, k + 1)

\* the sort key (x.is_file, x.path.name.lower()), compared as Python
\* compares tuples
\* variant: the names are compared without lower()
sort_key_less_cased(t, p, q) ==
    \/ ~t[p].is_file /\ t[q].is_file
    \/ /\ t[p].is_file = t[q].is_file
       /\ ord(name(p)) < ord(name(q))

sort_key_less(t, p, q) ==
    \/ ~t[p].is_file /\ t[q].is_file
    \/ /\ t[p].is_file = t[q].is_file
       /\ ord(lower(name(p))) < ord(lower(name(q)))

\* list.sort is stable: an element goes behind every element whose key is
\* not greater than its own
RECURSIVE sorted_children(_, _)
sorted_children(t, kids) ==
    IF kids = <<>> THEN <<>>
    ELSE LET n == Len(kids)
             x == kids[n]
             front == sorted_children(t, SubSeq(kids, 1, n - 1))
             keep == {i \in DOMAIN front : ~sort_key_less(t, x, front[i])}
             cut == IF keep = {} THEN 0
                    ELSE CHOOSE i \in keep : \A j \in keep : j <= i
         IN  SubSeq(front, 1, cut) \o <<x>> \o SubSeq(front, cut + 1, n - 1)

RECURSIVE _sort_tree_children(_, _)
RECURSIVE sort_each_child(_, _, _)
sort_each_child(t, kids, i) ==
    IF i > Len(kids) THEN t
    ELSE sort_each_child(_sort_tree_children(t, kids[i]), kids, i + 1)

_sort_tree_children(t, n) ==
    IF t[n].is_file THEN t
    ELSE LET sorted == sorted_children(t, t[n].children)
         IN  sort_each_child([t EXCEPT ![n].children = sorted], sorted, 1)

_build_file_tree(fs) ==
    LET tree_root == [TreeNode(root_path, FALSE, <<>>) EXCEPT !.expanded = TRUE]
    IN  _sort_tree_children(insert_files(root_path :> tree_root, fs, 1),
                            root_path)

----------------------------------------------------------------------------
(* InteractiveSelector: reconciliation with a saved selection               *)

RECURSIVE mark_selected(_, _, _, _)
RECURSIVE mark_selected_children(_, _, _, _, _)
mark_selected_children(t, kids, i, sf, sd) ==
    IF i > Len(kids) THEN t
    ELSE mark_selected_children(mark_selected(t, kids[i], sf, sd),
                                kids, i + 1, sf, sd)

\* variant: a saved folder is descended into like any other directory
mark_selected_descending(t, n, sf, sd) ==
    IF t[n].is_file
    THEN IF t[n].path \in sf THEN [t EXCEPT ![n].selected = TRUE] ELSE t
    ELSE mark_selected_children(t, t[n].children, 1, sf, sd)

mark_selected(t, n, sf, sd) ==
    IF t[n].is_file
    THEN IF t[n].path \in sf THEN [t EXCEPT ![n].selected = TRUE] ELSE t
    ELSE IF t[n].path \in sd
         THEN set_selected_recursive(t, n, TRUE)
         ELSE mark_selected_children(t, t[n].children, 1, sf, sd)

_apply_saved_selection(t, sf, sd) == mark_selected(t, root_path, sf, sd)

----------------------------------------------------------------------------
(* InteractiveSelector: the visible rows, expand and collapse               *)

\* the list of <<node, depth>> rows
RECURSIVE traverse(_, _, _)
RECURSIVE traverse_children(_, _, _, _)
traverse_children(t, kids, i, depth) ==
    IF i > Len(kids) THEN <<>>
    ELSE traverse(t, kids[i], depth) \o traverse_children(t, kids, i + 1, depth)

\* variant: a collapsed directory is descended into as well
traverse_everything(t, n, depth) ==
    (IF n # root_path THEN <<(<<n, depth>>)>> ELSE <<>>)
    \o (IF ~t[n].is_file
        THEN traverse_children(t, t[n].children, 1, depth + 1)
        ELSE <<>>)

traverse(t, n, depth) ==
    (IF n # root_path THEN <<(<<n, depth>>)>> ELSE <<>>)
    \o (IF ~t[n].is_file /\ t[n].expanded
        THEN traverse_children(t, t[n].children, 1, depth + 1)
        ELSE <<>>)

_get_visible_nodes(t) == traverse(t, root_path, 0)

RECURSIVE _expand_all(_, _)
RECURSIVE expand_children(_, _, _)
expand_children(t, kids, i) ==
    IF i > Len(kids) THEN t
    ELSE expand_children(_expand_all(t, kids[i]), kids, i + 1)

\* variant: only the directory itself is opened
_expand_all_shallow(t, n) ==
    IF t[n].is_file THEN t
    ELSE [t EXCEPT ![n].expanded = TRUE]

_expand_all(t, n) ==
    IF t[n].is_file THEN t
    ELSE expand_children([t EXCEPT ![n].expanded = TRUE], t[n].children, 1)

RECURSIVE _collapse_all(_, _, _)
RECURSIVE collapse_children(_, _, _, _)
collapse_children(t, kids, i, depth) ==
    IF i > Len(kids) THEN t
    ELSE collapse_children(_collapse_all(t, kids[i], depth), kids, i + 1, depth)

\* variant: no level is kept open
_collapse_all_closing_root(t, n, depth) ==
    IF t[n].is_file THEN t
    ELSE collapse_children([t EXCEPT ![n].expanded = FALSE],
                           t[n].children, 1, depth + 1)

_collapse_all(t, n, depth) ==
    IF t[n].is_file THEN t
    ELSE collapse_children([t EXCEPT ![n].expanded = (depth = 0)],
                           t[n].children, 1, depth + 1)

----------------------------------------------------------------------------
(* Inputs                                                                   *)

\* self.page_size as assigned by __init__
DefaultPageSize == 15

PageSizes == {DefaultPageSize, ScaledPageSize}

P(parts) == root_path \o parts

\* the resolved location of the scan root when the root handed to the
\* selector is a symbolic link (or a relative path): the collector lists
\* the files under root_path.resolve(), the selector gets the path as given
resolved_root == <<"real">>

\* candidate lists as the collector hands them over: distinct files under
\* the root, and one list under the resolved location of the root
FileLists ==
    { <<>>,
      <<resolved_root \o <<"a", "x">>, resolved_root \o <<"b">>>>,
      <<P(<<"a", "x">>), P(<<"a", "y">>), P(<<"b", "z">>)>>,
      <<P(<<"d", "z">>), P(<<"d", "a", "x">>), P(<<"d", "a", "y">>)>>,
      <<P(<<"Z">>), P(<<"B", "x">>), P(<<"a", "y">>), P(<<"c">>)>>,
      <<P(<<"B">>), P(<<"b">>)>>,
      <<P(<<"a", "x">>), P(<<"c\\d">>)>> }

\* a saved path that is not part of the scanned tree
StalePath == P(<<"gone">>)

Range(s) == {s[i] : i \in DOMAIN s}

\* filter_existing_paths yields paths of the form root / relative path
SavedFileChoices(fs) ==
    {f \in Range(fs) : IsPrefix(root_path, f)} \cup {StalePath}

SavedFolderChoices(fs) ==
    UNION {{SubSeq(fs[i], 1, k) : k \in Len(root_path)..(Len(fs[i]) - 1)} :
               i \in {j \in DOMAIN fs : IsPrefix(root_path, fs[j])}}

\* what KeyboardHandler.get_key can return: the logical keys and raw
\* characters
Keys == {"UP", "DOWN", "SPACE", "RIGHT", "LEFT", "EXPAND", "COLLAPSE",
         "ENTER", "QUIT", "ESC", "ALL", "NONE", "r", "R", "FIND",
         "PAGEUP", "PAGEDOWN", "x"}

\* what input().strip() can return in the FIND branch
SearchTerms == {"", "q"}

Max(a, b) == IF a > b THEN a ELSE b

Min(a, b) == IF a < b THEN a ELSE b

----------------------------------------------------------------------------
(* State machine                                                            *)

Init ==
    /\ files \in FileLists
    /\ saved_files \in {s \in SUBSET SavedFileChoices(files) :
                            Cardinality(s) <= MaxSaved}
    /\ saved_folders \in {s \in SUBSET SavedFolderChoices(files) :
                              Cardinality(s) <= MaxSaved}
    /\ page_size \in PageSizes
    /\ tree = <<>>
    /\ current_pos = 0
    /\ current_page = 0
    /\ search_term = ""
    /\ pc = "init"
    /\ key = NoKey
    /\ frame_shown = FALSE
    /\ all_files = <<>>
    /\ key_read = FALSE
    /\ result = <<>>
    /\ candidate_path = <<>>
    /\ gitignore_patterns = <<>>
    /\ ignored = FALSE
    /\ scan_parent = <<>>
    /\ skipped = FALSE
    /\ tty_queue = <<>>
    /\ stdin_buffer = <<>>
    /\ full_seq = <<>>
    /\ typed = 0
    /\ other = <<>>

\* file_path.relative_to(self.root_path) raises ValueError for some
\* candidate
relative_to_raises(fs) == \E i \in DOMAIN fs : ~IsPrefix(root_path, fs[i])

\* the orders in which one set of candidates can be handed over:
\* scan_and_collect sorts by path or by modification time
Orderings(fs) ==
    {[i \in DOMAIN fs |-> fs[f[i]]] :
        f \in {g \in [DOMAIN fs -> DOMAIN fs] :
                  \A i, j \in DOMAIN fs : g[i] = g[j] => i = j}}

\* variant: only saved_files decides whether the saved selection is applied
Construct_files_only ==
    /\ pc = "init"
    /\ ~relative_to_raises(files)
    /\ tree' = IF saved_files # {}
               THEN _apply_saved_selection(_build_file_tree(files),
                                           saved_files, saved_folders)
               ELSE _build_file_tree(files)
    /\ current_pos' = 0
    /\ current_page' = 0
    /\ search_term' = ""
    /\ pc' = "ready"
    /\ UNCHANGED <<files, saved_files, saved_folders, page_size, key,
                   frame_shown, all_files, key_read, result>>
    /\ UNCHANGED <<filter_vars, denylist_vars, reader_vars, other>>

\* InteractiveSelector.__init__
Construct ==
    /\ pc = "init"
    /\ ~relative_to_raises(files)
    /\ tree' = IF saved_files # {} \/ saved_folders # {}
               THEN _apply_saved_selection(_build_file_tree(files),
                                           saved_files, saved_folders)
               ELSE _build_file_tree(files)
    /\ current_pos' = 0
    /\ current_page' = 0
    /\ search_term' = ""
    /\ pc' = "ready"
    /\ UNCHANGED <<files, saved_files, saved_folders, page_size, key,
                   frame_shown, all_files, key_read, result>>
    /\ UNCHANGED <<filter_vars, denylist_vars, reader_vars, other>>

\* InteractiveSelector.__init__ when _build_file_tree raises: the ValueError
\* leaves __init__ and _interactive_file_selection; no selector exists
ConstructRaises ==
    /\ pc = "init"
    /\ relative_to_raises(files)
    /\ pc' = "raised"
    /\ UNCHANGED <<files, saved_files, saved_folders, tree, current_pos,
                   page_size, current_page, search_term, key, frame_shown,
                   all_files, key_read, result>>
    /\ UNCHANGED <<filter_vars, denylist_vars, reader_vars, other>>

\* variant: the test for an empty candidate list is missing
Run_unguarded ==
    /\ pc = "ready"
    /\ pc' = "display"
    /\ result' = <<>>
    /\ key' = NoKey
    /\ saved_files' = {}
    /\ saved_folders' = {}
    /\ UNCHANGED <<files, tree, current_pos, page_size, current_page,
                   search_term, frame_shown, all_files, key_read>>
    /\ UNCHANGED <<filter_vars, denylist_vars, reader_vars, other>>

\* run(), up to the loop.  The saved sets are arguments of __init__ that the
\* selector does not keep; they are dropped here.  This call has read no
\* key and returned nothing yet.
Run ==
    /\ pc = "ready"
    /\ IF files = <<>>
       THEN pc' = "done"
       ELSE pc' = "display"
    /\ result' = <<>>
    /\ key' = NoKey
    /\ saved_files' = {}
    /\ saved_folders' = {}
    /\ UNCHANGED <<files, tree, current_pos, page_size, current_page,
                   search_term, frame_shown, all_files, key_read>>
    /\ UNCHANGED <<filter_vars, denylist_vars, reader_vars, other>>

\* str.replace('\\', '/')
RECURSIVE replace_backslash(_)
replace_backslash(str) ==
    IF str = "" THEN ""
    ELSE (IF Head(str) = "\\" THEN "/" ELSE SubSeq(str, 1, 1))
         \o replace_backslash(Tail(str))

\* the parts of Path(str) for a relative path string: the segments between
\* slashes; cur is the segment being read
RECURSIVE string_parts(_, _)
string_parts(str, cur) ==
    LET done == IF cur = "" THEN <<>> ELSE <<cur>>
    IN  IF str = "" THEN done
        ELSE IF Head(str) = "/" THEN done \o string_parts(Tail(str), "")
        ELSE string_parts(Tail(str), cur \o SubSeq(str, 1, 1))

\* ProjectSettings.save_settings: the selected_files entry of the settings
\* file, as json.dump writes and json.load reads it
save_settings(selected_files) ==
    [i \in DOMAIN selected_files |->
        replace_backslash(slash_join(relative_parts(selected_files[i]), 1))]

\* ProjectSettings.filter_existing_paths on the loaded strings: the paths
\* root / string that are files on the disk
filter_existing_paths(selected, on_disk) ==
    {root_path \o string_parts(selected[i], "") : i \in DOMAIN selected}
        \cap on_disk

\* the rest of CodeCollectorApp.run after a non-empty selection, and the
\* next run of the program on the same files up to the call of
\* InteractiveSelector: the selection is saved with no folders, loaded and
\* filtered.  key and result keep the values of the session that ended.
NextSession ==
    /\ pc = "done"
    /\ result # <<>>
    /\ saved_files' = filter_existing_paths(save_settings(result), Range(files))
    /\ saved_folders' = {}
    /\ tree' = <<>>
    /\ current_pos' = 0
    /\ current_page' = 0
    /\ search_term' = ""
    /\ frame_shown' = FALSE
    /\ all_files' = <<>>
    /\ key_read' = FALSE
    /\ pc' = "init"
    /\ UNCHANGED <<files, page_size, key, result>>
    /\ UNCHANGED <<filter_vars, denylist_vars, reader_vars, other>>

\* _display_tree: draws a frame, changes nothing of the selector; with no
\* visible row it returns before all_files is computed
DisplayTree ==
    /\ pc = "display"
    /\ frame_shown' = TRUE
    /\ all_files' = IF _get_visible_nodes(tree) = <<>>
                    THEN all_files
                    ELSE get_selected_files(tree, root_path)
    /\ pc' = "get_key"
    /\ UNCHANGED <<filter_vars, denylist_vars, reader_vars, other>>
    /\ UNCHANGED <<files, saved_files, saved_folders, tree, current_pos,
                   page_size, current_page, search_term, key, key_read,
                   result>>

\* key = KeyboardHandler.get_key()
GetKey ==
    /\ pc = "get_key"
    /\ key' \in Keys
    /\ key_read' = TRUE
    /\ pc' = "handle_key"
    /\ UNCHANGED <<filter_vars, denylist_vars, reader_vars, other>>
    /\ UNCHANGED <<files, saved_files, saved_folders, tree, current_pos,
                   page_size, current_page, search_term, frame_shown,
                   all_files, result>>

visible_nodes == _get_visible_nodes(tree)

total_pages ==
    IF visible_nodes # <<>>
    THEN (Len(visible_nodes) - 1) \div page_size + 1
    ELSE 1

\* the node under the cursor; visible_nodes is 1-based here
current_node == visible_nodes[current_pos + 1][1]

\* _handle_key returned True: the loop goes round
Continue ==
    /\ pc' = "display"
    /\ key' = key
    /\ result' = result

\* _handle_key returned False: break, and run() returns the selected files
Break ==
    /\ pc' = "done"
    /\ key' = key
    /\ result' = get_selected_files(tree', root_path)

\* what no branch of _handle_key touches
untouched == <<files, saved_files, saved_folders, page_size, frame_shown,
               all_files, key_read, filter_vars, denylist_vars, reader_vars,
               other>>

KeyUp ==
    /\ key = "UP"
    /\ IF current_pos > 0
       THEN /\ current_pos' = current_pos - 1
            /\ current_page' =
                   IF current_pos - 1 < current_page * page_size
                   THEN Max(0, current_page - 1)
                   ELSE current_page
       ELSE UNCHANGED <<current_pos, current_page>>
    /\ UNCHANGED <<tree, search_term>>
    /\ Continue

\* variant: the cursor stops at the last row of the page shown
KeyDown_within_page ==
    /\ key = "DOWN"
    /\ IF /\ current_pos < Len(visible_nodes) - 1
          /\ current_pos + 1 < (current_page + 1) * page_size
       THEN current_pos' = current_pos + 1
       ELSE current_pos' = current_pos
    /\ UNCHANGED <<current_page, tree, search_term>>
    /\ Continue

KeyDown ==
    /\ key = "DOWN"
    /\ IF current_pos < Len(visible_nodes) - 1
       THEN /\ current_pos' = current_pos + 1
            /\ current_page' =
                   IF current_pos + 1 >= (current_page + 1) * page_size
                   THEN Min(total_pages - 1, current_page + 1)
                   ELSE current_page
       ELSE UNCHANGED <<current_pos, current_page>>
    /\ UNCHANGED <<tree, search_term>>
    /\ Continue

\* variant: only a directory reported 'none' is selected as a whole
activate_from_none(t, n) ==
    IF t[n].is_file
    THEN [t EXCEPT ![n].selected = ~t[n].selected]
    ELSE LET state == get_selection_state(t, n)
             new_state == state = "none"
         IN  set_selected_recursive(t, n, new_state)

\* variant: a directory row selects or deselects the whole tree
activate_whole_tree(t, n) ==
    IF t[n].is_file
    THEN [t EXCEPT ![n].selected = ~t[n].selected]
    ELSE LET state == get_selection_state(t, n)
             new_state == state # "all"
         IN  set_selected_recursive(t, root_path, new_state)

\* the SPACE branch on the node under the cursor
activate(t, n) ==
    IF t[n].is_file
    THEN [t EXCEPT ![n].selected = ~t[n].selected]
    ELSE LET state == get_selection_state(t, n)
             new_state == state # "all"
         IN  set_selected_recursive(t, n, new_state)

KeySpace ==
    /\ key = "SPACE"
    /\ tree' = IF current_pos < Len(visible_nodes)
               THEN activate(tree, current_node)
               ELSE tree
    /\ UNCHANGED <<current_pos, current_page, search_term>>
    /\ Continue

KeyRight ==
    /\ key = "RIGHT"
    /\ tree' = IF current_pos < Len(visible_nodes) /\ ~tree[current_node].is_file
               THEN [tree EXCEPT ![current_node].expanded = TRUE]
               ELSE tree
    /\ UNCHANGED <<current_pos, current_page, search_term>>
    /\ Continue

\* variant: LEFT on a file row closes the directory that holds the file
KeyLeft_collapsing_parent ==
    /\ key = "LEFT"
    /\ tree' = IF current_pos < Len(visible_nodes)
               THEN IF ~tree[current_node].is_file
                    THEN [tree EXCEPT ![current_node].expanded = FALSE]
                    ELSE [tree EXCEPT
                              ![tree[current_node].parent[1]].expanded = FALSE]
               ELSE tree
    /\ UNCHANGED <<current_pos, current_page, search_term>>
    /\ Continue

KeyLeft ==
    /\ key = "LEFT"
    /\ tree' = IF current_pos < Len(visible_nodes) /\ ~tree[current_node].is_file
               THEN [tree EXCEPT ![current_node].expanded = FALSE]
               ELSE tree
    /\ UNCHANGED <<current_pos, current_page, search_term>>
    /\ Continue

KeyExpand ==
    /\ key = "EXPAND"
    /\ tree' = _expand_all(tree, root_path)
    /\ UNCHANGED <<current_pos, current_page, search_term>>
    /\ Continue

KeyCollapse ==
    /\ key = "COLLAPSE"
    /\ tree' = _collapse_all(tree, root_path, 0)
    /\ UNCHANGED <<current_pos, current_page, search_term>>
    /\ Continue

KeyEnter ==
    /\ key = "ENTER"
    /\ UNCHANGED <<tree, current_pos, current_page, search_term>>
    /\ Break

\* variant: QUIT leaves the selection as it is
KeyQuit_keeping ==
    /\ key = "QUIT"
    /\ UNCHANGED <<tree, current_pos, current_page, search_term>>
    /\ Break

KeyQuit ==
    /\ key = "QUIT"
    /\ tree' = set_selected_recursive(tree, root_path, FALSE)
    /\ UNCHANGED <<current_pos, current_page, search_term>>
    /\ Break

\* variant: clearing the search term also rewinds the cursor
KeyEsc_rewinding ==
    /\ key = "ESC"
    /\ IF search_term # ""
       THEN /\ search_term' = ""
            /\ tree' = tree
            /\ current_pos' = 0
            /\ current_page' = 0
            /\ Continue
       ELSE /\ search_term' = search_term
            /\ tree' = set_selected_recursive(tree, root_path, FALSE)
            /\ UNCHANGED <<current_pos, current_page>>
            /\ Break

\* variant: ESC cancels whether or not a search term is set
KeyEsc_always_cancels ==
    /\ key = "ESC"
    /\ search_term' = search_term
    /\ tree' = set_selected_recursive(tree, root_path, FALSE)
    /\ Break
    /\ UNCHANGED <<current_pos, current_page>>

KeyEsc ==
    /\ key = "ESC"
    /\ IF search_term # ""
       THEN /\ search_term' = ""
            /\ tree' = tree
            /\ Continue
       ELSE /\ search_term' = search_term
            /\ tree' = set_selected_recursive(tree, root_path, FALSE)
            /\ Break
    /\ UNCHANGED <<current_pos, current_page>>

\* variant: selecting everything rewinds the cursor
KeyAll_rewinding ==
    /\ key = "ALL"
    /\ tree' = set_selected_recursive(tree, root_path, TRUE)
    /\ current_pos' = 0
    /\ current_page' = 0
    /\ search_term' = search_term
    /\ Continue

KeyAll ==
    /\ key = "ALL"
    /\ tree' = set_selected_recursive(tree, root_path, TRUE)
    /\ UNCHANGED <<current_pos, current_page, search_term>>
    /\ Continue

KeyNone ==
    /\ key = "NONE"
    /\ tree' = set_selected_recursive(tree, root_path, FALSE)
    /\ UNCHANGED <<current_pos, current_page, search_term>>
    /\ Continue

\* variant: the reset also collapses the tree
KeyReset_collapsing ==
    /\ key \in {"r", "R"}
    /\ tree' = _collapse_all(set_selected_recursive(tree, root_path, FALSE),
                             root_path, 0)
    /\ UNCHANGED <<current_pos, current_page, search_term>>
    /\ Continue

KeyReset ==
    /\ key \in {"r", "R"}
    /\ tree' = set_selected_recursive(tree, root_path, FALSE)
    /\ UNCHANGED <<current_pos, current_page, search_term>>
    /\ Continue

KeyFind ==
    /\ key = "FIND"
    /\ search_term' \in SearchTerms
    /\ UNCHANGED <<tree, current_pos, current_page>>
    /\ Continue

\* variant: PAGEDOWN turns the page
KeyOther_paging ==
    /\ key \notin {"UP", "DOWN", "SPACE", "RIGHT", "LEFT", "EXPAND",
                   "COLLAPSE", "ENTER", "QUIT", "ESC", "ALL", "NONE",
                   "r", "R", "FIND"}
    /\ current_page' = IF key = "PAGEDOWN"
                       THEN Min(total_pages - 1, current_page + 1)
                       ELSE current_page
    /\ UNCHANGED <<tree, current_pos, search_term>>
    /\ Continue

\* no branch of the if/elif chain matches
KeyOther ==
    /\ key \notin {"UP", "DOWN", "SPACE", "RIGHT", "LEFT", "EXPAND",
                   "COLLAPSE", "ENTER", "QUIT", "ESC", "ALL", "NONE",
                   "r", "R", "FIND"}
    /\ UNCHANGED <<tree, current_pos, current_page, search_term>>
    /\ Continue

\* self._handle_key(key) and the test of its result in run()
HandleKey ==
    /\ pc = "handle_key"
    /\ UNCHANGED untouched
    /\ \/ KeyUp
       \/ KeyDown
       \/ KeySpace
       \/ KeyRight
       \/ KeyLeft
       \/ KeyExpand
       \/ KeyCollapse
       \/ KeyEnter
       \/ KeyQuit
       \/ KeyEsc
       \/ KeyAll
       \/ KeyNone
       \/ KeyReset
       \/ KeyFind
       \/ KeyOther

Next ==
    \/ Construct
    \/ ConstructRaises
    \/ Run
    \/ DisplayTree
    \/ GetKey
    \/ HandleKey
    \/ NextSession

Spec == Init /\ [][Next]_vars

----------------------------------------------------------------------------
(* GitignoreHandler: the ignore-pattern check                               *)

\* fnmatch.fnmatch on a POSIX system for patterns of literals, '*' and '?'
\* (no pattern of the model holds a bracket expression): '*' and '?' match
\* any character, '/' and a leading '.' included
RECURSIVE fnmatch(_, _)
fnmatch(s, pat) ==
    IF pat = "" THEN s = ""
    ELSE LET c == Head(pat)
             rest == Tail(pat)
         IN  IF c = "*"
             THEN fnmatch(s, rest) \/ (s # "" /\ fnmatch(Tail(s), pat))
             ELSE IF c = "?"
             THEN s # "" /\ fnmatch(Tail(s), rest)
             ELSE s # "" /\ Head(s) = c /\ fnmatch(Tail(s), rest)

startswith(s, c) == s # "" /\ Head(s) = c

endswith(s, suffix) ==
    /\ Len(s) >= Len(suffix)
    /\ SubSeq(s, Len(s) - Len(suffix) + 1, Len(s)) = suffix

\* variant: the trailing-slash rule looks at the directory parts only
pattern_ignores_dirs_only(path_parts, raw) ==
    LET pattern == IF startswith(raw, "/") THEN Tail(raw) ELSE raw
        rel_path_str == slash_join(path_parts, 1)
    IN  \/ rel_path_str = pattern
        \/ fnmatch(rel_path_str, pattern)
        \/ \E i \in DOMAIN path_parts :
               \/ fnmatch(slash_join(path_parts, i), pattern)
               \/ fnmatch(path_parts[i], pattern)
        \/ /\ endswith(pattern, "/")
           /\ LET dir_pattern == SubSeq(pattern, 1, Len(pattern) - 1)
              IN  \E i \in 1..(Len(path_parts) - 1) :
                      fnmatch(path_parts[i], dir_pattern)

\* variant: a pattern is matched against the whole relative path only
pattern_ignores_whole_path(path_parts, raw) ==
    LET pattern == IF startswith(raw, "/") THEN Tail(raw) ELSE raw
        rel_path_str == slash_join(path_parts, 1)
    IN  \/ rel_path_str = pattern
        \/ fnmatch(rel_path_str, pattern)
        \/ /\ endswith(pattern, "/")
           /\ LET dir_pattern == SubSeq(pattern, 1, Len(pattern) - 1)
              IN  \E i \in DOMAIN path_parts :
                      fnmatch(path_parts[i], dir_pattern)

\* variant: a leading slash ties the pattern to the root
pattern_ignores_anchored(path_parts, raw) ==
    LET pattern == IF startswith(raw, "/") THEN Tail(raw) ELSE raw
        rel_path_str == slash_join(path_parts, 1)
        first == IF startswith(raw, "/") THEN {1} ELSE DOMAIN path_parts
    IN  \/ rel_path_str = pattern
        \/ fnmatch(rel_path_str, pattern)
        \/ \E i \in first \cap DOMAIN path_parts :
               \/ fnmatch(slash_join(path_parts, i), pattern)
               \/ fnmatch(path_parts[i], pattern)
        \/ /\ endswith(pattern, "/")
           /\ LET dir_pattern == SubSeq(pattern, 1, Len(pattern) - 1)
              IN  \E i \in first \cap DOMAIN path_parts :
                      fnmatch(path_parts[i], dir_pattern)

\* one iteration of the loop over gitignore_patterns: TRUE when it returns
pattern_ignores(path_parts, raw) ==
    LET pattern == IF startswith(raw, "/") THEN Tail(raw) ELSE raw
        rel_path_str == slash_join(path_parts, 1)
    IN  \/ rel_path_str = pattern
        \/ fnmatch(rel_path_str, pattern)
        \/ \E i \in DOMAIN path_parts :
               \/ fnmatch(slash_join(path_parts, i), pattern)
               \/ fnmatch(path_parts[i], pattern)
        \/ /\ endswith(pattern, "/")
           /\ LET dir_pattern == SubSeq(pattern, 1, Len(pattern) - 1)
              IN  \E i \in DOMAIN path_parts :
                      fnmatch(path_parts[i], dir_pattern)

is_ignored_by_gitignore(path, patterns) ==
    IF patterns = <<>> THEN FALSE
    ELSE IF ~IsPrefix(root_path, path) THEN FALSE
    ELSE \E k \in DOMAIN patterns :
             pattern_ignores(relative_parts(path), patterns[k])

\* FileFilters.SKIP_DIRS
SKIP_DIRS == {"vendor", "venv", ".git", ".vscode", "__pycache__",
              "node_modules"}

should_skip_directory(dir_name) == dir_name \in SKIP_DIRS

\* Path.parents of an absolute path: every proper prefix, the filesystem
\* root (no part at all) included
parents(p) == {SubSeq(p, 1, k) : k \in 0..(Len(p) - 1)}

\* Path.name, the filesystem root having the empty name
parent_name(p) == IF p = <<>> THEN "" ELSE name(p)

\* variant: the name of the file itself is looked up as well
in_skipped_directory_or_named(p) ==
    \E parent \in parents(p) \cup {p} : should_skip_directory(parent_name(parent))

\* the loop over file_path.parents: TRUE when it returns False
in_skipped_directory(p) ==
    \E parent \in parents(p) : should_skip_directory(parent_name(parent))

\* where the scan root lies: self.root_path is root_path.resolve(), an
\* absolute path
ScanParents == {<<"home", "u">>, <<"home", "venv">>, <<"vendor">>}

\* candidate files of a scan, and one path that is not under the root
CandidatePaths ==
    { P(<<"node_modules", "x.js">>),
      P(<<"a", "b", "node_modules", "y.js">>),
      P(<<"my_node_modules_folder", "y.js">>),
      P(<<"src", "node_modules">>),
      P(<<"app.log">>),
      P(<<"logs", "app.log">>),
      P(<<"app.log.bak">>),
      P(<<"x.log", "readme.txt">>),
      P(<<".log">>),
      P(<<"a", "applog">>),
      P(<<"a", "b">>),
      <<"other", "node_modules", "app.log">> }

\* lines of a .gitignore as parse_gitignore keeps them
Patterns ==
    {"node_modules/", "/node_modules/", "*_modules/", "lo?s/", "a/b/",
     "*.log", "/*.log", "node_modules", "a/b", "*.js", "app.*", "?"}

RECURSIVE PatternLists(_)
PatternLists(n) ==
    IF n = 0 THEN {<<>>}
    ELSE LET shorter == PatternLists(n - 1)
         IN  shorter \cup {Append(l, q) : l \in {m \in shorter : Len(m) = n - 1},
                                          q \in Patterns}

IgnoreInit ==
    /\ candidate_path \in CandidatePaths
    /\ gitignore_patterns \in PatternLists(MaxPatterns)
    /\ ignored = FALSE
    /\ scan_parent \in ScanParents
    /\ skipped = FALSE
    /\ tty_queue = <<>>
    /\ stdin_buffer = <<>>
    /\ full_seq = <<>>
    /\ typed = 0
    /\ other = <<>>
    /\ pc = "check"
    /\ files = <<>>
    /\ saved_files = {}
    /\ saved_folders = {}
    /\ page_size = DefaultPageSize
    /\ tree = <<>>
    /\ current_pos = 0
    /\ current_page = 0
    /\ search_term = ""
    /\ key = NoKey
    /\ frame_shown = FALSE
    /\ all_files = <<>>
    /\ key_read = FALSE
    /\ result = <<>>

\* the call of GitignoreHandler.is_ignored_by_gitignore
CheckIgnored ==
    /\ pc = "check"
    /\ ignored' = is_ignored_by_gitignore(candidate_path, gitignore_patterns)
    /\ pc' = "checked"
    /\ UNCHANGED <<files, saved_files, saved_folders, tree, current_pos,
                   page_size, current_page, search_term, key, frame_shown,
                   all_files, key_read, result, candidate_path,
                   gitignore_patterns, denylist_vars, reader_vars, other>>

\* the loop over file_path.parents, reached when the file is not ignored;
\* file_path is a path below self.root_path, hence absolute
CheckParents ==
    /\ pc = "checked"
    /\ ~ignored
    /\ skipped' = in_skipped_directory(scan_parent \o candidate_path)
    /\ pc' = "filtered"
    /\ UNCHANGED <<files, saved_files, saved_folders, tree, current_pos,
                   page_size, current_page, search_term, key, frame_shown,
                   all_files, key_read, result, filter_vars, scan_parent,
                   reader_vars, other>>

IgnoreNext ==
    \/ CheckIgnored
    \/ CheckParents

IgnoreSpec == IgnoreInit /\ [][IgnoreNext]_vars

----------------------------------------------------------------------------
(* KeyboardHandler: the key reader on a Unix terminal                       *)

\* largest number of characters typed during one run of the reader
MaxTyped == 4

\* the character 0x1b
ESC == "ESC"

\* characters the terminal delivers
InputChars == {ESC, "[", "A", "5", "~", "q"}

\* the if/elif chain on a first character other than 0x1b
key_of(c) ==
    CASE c = " " -> "SPACE"
      [] c \in {"\r", "\n"} -> "ENTER"
      [] c \in {"q", "Q"} -> "QUIT"
      [] c \in {"a", "A"} -> "ALL"
      [] c \in {"n", "N"} -> "NONE"
      [] c \in {"w", "W"} -> "UP"
      [] c \in {"s", "S"} -> "DOWN"
      [] c = "j" -> "DOWN"
      [] c = "k" -> "UP"
      [] c \in {"f", "F"} -> "FIND"
      [] c \in {"+", "="} -> "EXPAND"
      [] c \in {"-", "_"} -> "COLLAPSE"
      [] OTHER -> c

\* the if/elif chain on full_seq, for the sequences that return at once
key_of_seq(seq) ==
    CASE seq = <<ESC, "[", "A">> -> "UP"
      [] seq = <<ESC, "[", "B">> -> "DOWN"
      [] seq = <<ESC, "[", "C">> -> "RIGHT"
      [] seq = <<ESC, "[", "D">> -> "LEFT"
      [] OTHER -> "ESC"

\* what the key reader leaves alone
reader_frame == <<files, saved_files, saved_folders, tree, current_pos,
                  page_size, current_page, search_term, frame_shown,
                  all_files, key_read, result, filter_vars, denylist_vars,
                  other>>

KeyInit ==
    /\ pc = "read_key"
    /\ key = NoKey
    /\ tty_queue = <<>>
    /\ stdin_buffer = <<>>
    /\ full_seq = <<>>
    /\ typed = 0
    /\ other = <<>>
    /\ files = <<>>
    /\ saved_files = {}
    /\ saved_folders = {}
    /\ page_size = DefaultPageSize
    /\ tree = <<>>
    /\ current_pos = 0
    /\ current_page = 0
    /\ search_term = ""
    /\ frame_shown = FALSE
    /\ all_files = <<>>
    /\ key_read = FALSE
    /\ result = <<>>
    /\ candidate_path = <<>>
    /\ gitignore_patterns = <<>>
    /\ ignored = FALSE
    /\ scan_parent = <<>>
    /\ skipped = FALSE

\* the terminal: a character arrives, at any moment
TypeChar ==
    /\ typed < MaxTyped
    /\ \E c \in InputChars : tty_queue' = Append(tty_queue, c)
    /\ typed' = typed + 1
    /\ UNCHANGED <<pc, key, stdin_buffer, full_seq>>
    /\ UNCHANGED reader_frame

\* key = sys.stdin.read(1): the text layer hands out a character it holds;
\* when it holds none it waits for input and takes in all there is
ReadKey ==
    /\ pc = "read_key"
    /\ stdin_buffer # <<>> \/ tty_queue # <<>>
    /\ LET taken == IF stdin_buffer # <<>> THEN stdin_buffer ELSE tty_queue
       IN  /\ stdin_buffer' = Tail(taken)
           /\ tty_queue' = IF stdin_buffer # <<>> THEN tty_queue ELSE <<>>
           /\ full_seq' = <<Head(taken)>>
           /\ IF Head(taken) = ESC
              THEN pc' = "select" /\ key' = key
              ELSE pc' = "returned" /\ key' = key_of(Head(taken))
    /\ typed' = typed
    /\ UNCHANGED reader_frame

\* select.select([sys.stdin], [], [], 0.1): looks at the terminal, not at
\* what sys.stdin holds; on a timeout next_chars stays empty
SelectNextChars ==
    /\ pc = "select"
    /\ IF tty_queue # <<>>
       THEN pc' = "read_seq" /\ key' = key
       ELSE pc' = "returned" /\ key' = key_of_seq(full_seq)
    /\ UNCHANGED <<tty_queue, stdin_buffer, full_seq, typed>>
    /\ UNCHANGED reader_frame

\* next_chars = sys.stdin.read(2): returns once two characters are there
ReadNextChars ==
    /\ pc = "read_seq"
    /\ Len(stdin_buffer) + Len(tty_queue) >= 2
    /\ LET held == Len(stdin_buffer) >= 2
           taken == IF held THEN stdin_buffer ELSE stdin_buffer \o tty_queue
       IN  /\ stdin_buffer' = SubSeq(taken, 3, Len(taken))
           /\ tty_queue' = IF held THEN tty_queue ELSE <<>>
           /\ full_seq' = full_seq \o SubSeq(taken, 1, 2)
    /\ IF full_seq' \in {<<ESC, "[", "5">>, <<ESC, "[", "6">>}
       THEN pc' = "read_tilde" /\ key' = key
       ELSE pc' = "returned" /\ key' = key_of_seq(full_seq')
    /\ typed' = typed
    /\ UNCHANGED reader_frame

\* the PAGEUP / PAGEDOWN branches: select, then sys.stdin.read(1) when the
\* terminal has input
ReadTilde ==
    /\ pc = "read_tilde"
    /\ IF tty_queue # <<>>
       THEN LET taken == IF stdin_buffer # <<>> THEN stdin_buffer
                         ELSE tty_queue
            IN  /\ stdin_buffer' = Tail(taken)
                /\ tty_queue' = IF stdin_buffer # <<>> THEN tty_queue
                                ELSE <<>>
       ELSE UNCHANGED <<stdin_buffer, tty_queue>>
    /\ key' = IF full_seq = <<ESC, "[", "5">> THEN "PAGEUP" ELSE "PAGEDOWN"
    /\ pc' = "returned"
    /\ UNCHANGED <<full_seq, typed>>
    /\ UNCHANGED reader_frame

\* the loop of run() calls get_key again
GetKeyAgain ==
    /\ pc = "returned"
    /\ pc' = "read_key"
    /\ full_seq' = <<>>
    /\ UNCHANGED <<key, tty_queue, stdin_buffer, typed>>
    /\ UNCHANGED reader_frame

KeyNext ==
    \/ TypeChar
    \/ ReadKey
    \/ SelectNextChars
    \/ ReadNextChars
    \/ ReadTilde
    \/ GetKeyAgain

KeySpec == KeyInit /\ [][KeyNext]_vars

----------------------------------------------------------------------------
(* A second selector next to InteractiveSelector, fed the same keys         *)

\* page_size of the flat selector
FlatPageSize == 18

\* page_size of interactive_tree_selector
LegacyPageSize == 18

\* "resized": the selector of the package with the page size of the flat
\* selector; "legacy": the function interactive_tree_selector
Kinds == {"resized", "legacy"}

\* the rows, the page count and the node under the cursor of a selector
\* given as a record of its fields
visible_of(s) == _get_visible_nodes(s.tree)

pages_of(s) ==
    IF visible_of(s) # <<>>
    THEN (Len(visible_of(s)) - 1) \div s.page_size + 1
    ELSE 1

node_at(s) == visible_of(s)[s.current_pos + 1][1]

\* the branches that read the same in _handle_key and in
\* interactive_tree_selector: UP, DOWN, SPACE, RIGHT, LEFT, EXPAND,
\* COLLAPSE, ALL, NONE; any other key falls through
plain_branch(s, k) ==
    CASE k = "UP" ->
           IF s.current_pos > 0
           THEN [s EXCEPT !.current_pos = s.current_pos - 1,
                          !.current_page =
                              IF s.current_pos - 1 < s.current_page * s.page_size
                              THEN Max(0, s.current_page - 1)
                              ELSE s.current_page]
           ELSE s
      [] k = "DOWN" ->
           IF s.current_pos < Len(visible_of(s)) - 1
           THEN [s EXCEPT !.current_pos = s.current_pos + 1,
                          !.current_page =
                              IF s.current_pos + 1
                                     >= (s.current_page + 1) * s.page_size
                              THEN Min(pages_of(s) - 1, s.current_page + 1)
                              ELSE s.current_page]
           ELSE s
      [] k = "SPACE" ->
           IF s.current_pos < Len(visible_of(s))
           THEN [s EXCEPT !.tree = activate(s.tree, node_at(s))]
           ELSE s
      [] k = "RIGHT" ->
           IF s.current_pos < Len(visible_of(s)) /\ ~s.tree[node_at(s)].is_file
           THEN [s EXCEPT !.tree[node_at(s)].expanded = TRUE]
           ELSE s
      [] k = "LEFT" ->
           IF s.current_pos < Len(visible_of(s)) /\ ~s.tree[node_at(s)].is_file
           THEN [s EXCEPT !.tree[node_at(s)].expanded = FALSE]
           ELSE s
      [] k = "EXPAND" -> [s EXCEPT !.tree = _expand_all(s.tree, root_path)]
      [] k = "COLLAPSE" -> [s EXCEPT !.tree = _collapse_all(s.tree, root_path, 0)]
      [] k = "ALL" ->
           [s EXCEPT !.tree = set_selected_recursive(s.tree, root_path, TRUE)]
      [] k = "NONE" ->
           [s EXCEPT !.tree = set_selected_recursive(s.tree, root_path, FALSE)]
      [] OTHER -> s

cleared(s) ==
    [s EXCEPT !.tree = set_selected_recursive(s.tree, root_path, FALSE)]

returned(s, files_returned) ==
    [s EXCEPT !.pc = "done", !.result = files_returned]

\* InteractiveSelector._handle_key and the test of its result in run(), on
\* a selector given as a record; term is what input().strip() yields
_handle_key(s, k, term) ==
    LET break(t) == returned(t, get_selected_files(t.tree, root_path))
        continue(t) == [t EXCEPT !.pc = "handled"]
    IN  CASE k = "ENTER" -> break(s)
          [] k = "QUIT" -> break(cleared(s))
          [] k = "ESC" ->
               IF s.search_term # ""
               THEN continue([s EXCEPT !.search_term = ""])
               ELSE break(cleared(s))
          [] k \in {"r", "R"} -> continue(cleared(s))
          [] k = "FIND" -> continue([s EXCEPT !.search_term = term])
          [] OTHER -> continue(plain_branch(s, k))

\* one round of the loop of interactive_tree_selector from get_key() on
interactive_tree_selector_key(s, k, term) ==
    LET continue(t) == [t EXCEPT !.pc = "handled"]
    IN  CASE k = "ENTER" -> returned(s, get_selected_files(s.tree, root_path))
          [] k \in {"QUIT", "ESC"} ->
               IF s.search_term # ""
               THEN continue([s EXCEPT !.search_term = ""])
               ELSE returned(s, <<>>)
          [] k = "FIND" -> continue([s EXCEPT !.search_term = term])
          [] k \in {"r", "R"} -> continue(s)
          [] OTHER -> continue(plain_branch(s, k))

\* candidate lists for which a selector is constructed
ListsUnderRoot == {fs \in FileLists : ~relative_to_raises(fs)}

PairInit ==
    /\ \E kind \in Kinds :
           other = [kind |-> kind, pc |-> "start", tree |-> <<>>,
                    current_pos |-> 0, current_page |-> 0,
                    page_size |-> IF kind = "legacy" THEN LegacyPageSize
                                  ELSE FlatPageSize,
                    search_term |-> "", result |-> <<>>]
    /\ files \in ListsUnderRoot
    /\ other.kind = "legacy" => files # <<>>
    /\ saved_files \in {sf \in SUBSET SavedFileChoices(files) :
                            Cardinality(sf) <= MaxSaved}
    /\ saved_folders \in {sd \in SUBSET SavedFolderChoices(files) :
                              Cardinality(sd) <= MaxSaved}
    /\ page_size \in PageSizes
    /\ tree = <<>>
    /\ current_pos = 0
    /\ current_page = 0
    /\ search_term = ""
    /\ pc = "init"
    /\ key = NoKey
    /\ frame_shown = FALSE
    /\ all_files = <<>>
    /\ key_read = FALSE
    /\ result = <<>>
    /\ candidate_path = <<>>
    /\ gitignore_patterns = <<>>
    /\ ignored = FALSE
    /\ scan_parent = <<>>
    /\ skipped = FALSE
    /\ tty_queue = <<>>
    /\ stdin_buffer = <<>>
    /\ full_seq = <<>>
    /\ typed = 0

pair_frame == <<files, saved_files, saved_folders, tree, current_pos,
                page_size, current_page, search_term, pc, key, frame_shown,
                all_files, key_read, result, filter_vars, denylist_vars,
                reader_vars>>

\* the second selector up to its loop, from the arguments the first one
\* got.  Resized: __init__ and run() of the package.  Legacy: the head of
\* interactive_tree_selector, which sorts the list by path or by
\* modification time before it builds the tree.
OtherStart ==
    /\ pc = "ready"
    /\ other.pc = "start"
    /\ \E fs \in (IF other.kind = "legacy" THEN Orderings(files) ELSE {files}) :
           LET built == _build_file_tree(fs)
               marked == IF saved_files # {} \/ saved_folders # {}
                         THEN _apply_saved_selection(built, saved_files,
                                                     saved_folders)
                         ELSE built
           IN  other' = IF files = <<>>
                        THEN [other EXCEPT !.tree = marked, !.pc = "done",
                                           !.result = <<>>]
                        ELSE [other EXCEPT !.tree = marked, !.pc = "handled"]
    /\ UNCHANGED pair_frame

\* the second selector draws its frame and waits for the key; the legacy
\* loop goes round without reading a key when there is no row
OtherDisplay ==
    /\ pc # "handle_key"
    /\ other.pc = "handled"
    /\ other' = IF other.kind = "legacy" /\ visible_of(other) = <<>>
                THEN other
                ELSE [other EXCEPT !.pc = "get_key"]
    /\ UNCHANGED pair_frame

\* the second selector handles the key the first one has read
OtherHandleKey ==
    /\ pc = "handle_key"
    /\ other.pc = "get_key"
    /\ \E term \in SearchTerms :
           other' = IF other.kind = "legacy"
                    THEN interactive_tree_selector_key(other, key, term)
                    ELSE _handle_key(other, key, term)
    /\ UNCHANGED pair_frame

PairConstruct == Construct

PairRun ==
    /\ other.pc # "start"
    /\ Run

PairDisplayTree == DisplayTree

\* both read the same key; the legacy function is compared on the keys
\* other than the Reset key
PairGetKey ==
    /\ other.pc = "get_key"
    /\ GetKey
    /\ other.kind = "legacy" => key' \notin {"r", "R"}

\* the first selector handles the key, with the same search input
PairHandleKey ==
    /\ other.pc \in {"handled", "done"}
    /\ HandleKey
    /\ key = "FIND" => search_term' = other.search_term

PairNext ==
    \/ PairConstruct
    \/ OtherStart
    \/ PairRun
    \/ PairDisplayTree
    \/ OtherDisplay
    \/ PairGetKey
    \/ OtherHandleKey
    \/ PairHandleKey

PairSpec == PairInit /\ [][PairNext]_vars

----------------------------------------------------------------------------
(* Vocabulary of the properties                                             *)

Built == pc \notin {"init", "raised"}

FileNodes(t) == {n \in DOMAIN t : t[n].is_file}

DirNodes(t) == {n \in DOMAIN t : ~t[n].is_file}

\* the files below a directory, by their paths
DescFiles(t, d) == {f \in FileNodes(t) : IsPrefix(d, f) /\ f # d}

SelectedSet(t) == {f \in FileNodes(t) : t[f].selected}

AllSelected(t, d) == \A f \in DescFiles(t, d) : t[f].selected

NoneSelected(t, d) == \A f \in DescFiles(t, d) : ~t[f].selected

\* the cursor designates a directory row
OnDirectory ==
    /\ current_pos < Len(visible_nodes)
    /\ ~tree[current_node].is_file

Handling(k) == pc = "handle_key" /\ key = k

CancelEvent == pc = "handle_key" /\ (key = "QUIT" \/ (key = "ESC" /\ search_term = ""))

ConfirmEvent == pc = "handle_key" /\ key = "ENTER"

NoDuplicates(s) == \A i, j \in DOMAIN s : s[i] = s[j] => i = j

\* the canonical order of two files of one tree: at the first part where the
\* paths part ways a subdirectory precedes a file, and like kinds are in
\* the order of their lower-cased names
FirstDiff(p, q) ==
    CHOOSE i \in 1..Min(Len(p), Len(q)) :
        p[i] # q[i] /\ \A j \in 1..(i - 1) : p[j] = q[j]

CanonicallyBefore(p, q) ==
    LET i == FirstDiff(p, q)
        pdir == i < Len(p)
        qdir == i < Len(q)
    IN  \/ pdir /\ ~qdir
        \/ pdir = qdir /\ ord(lower(p[i])) <= ord(lower(q[i]))

----------------------------------------------------------------------------
(* C1: tri-state consistency                                                *)

\* C1: in every state after construction (reconciliation included) and
\* after every controller event, for every directory of a non-empty tree
\* get_selection_state is 'all' iff every descendant file is selected,
\* 'none' iff no descendant file is selected, and 'partial' otherwise.
C1_TriStateConsistency ==
    (Built /\ files # <<>>) =>
        \A d \in DirNodes(tree) :
            LET state == get_selection_state(tree, d)
            IN  /\ (state = "all") <=> AllSelected(tree, d)
                /\ (state = "none") <=> NoneSelected(tree, d)
                /\ (state = "partial") <=>
                       (~AllSelected(tree, d) /\ ~NoneSelected(tree, d))

----------------------------------------------------------------------------
(* C2: activating a partially selected directory                            *)

\* C2: SPACE on a directory row with at least one but not all descendant
\* files selected leaves every descendant file of that directory selected.
C2_PartialActivateSelectsAll ==
    [][(Handling("SPACE") /\ OnDirectory
          /\ ~AllSelected(tree, current_node)
          /\ ~NoneSelected(tree, current_node))
       => AllSelected(tree', current_node)]_vars

----------------------------------------------------------------------------
(* C3: toggle on the reported state                                         *)

\* C3: SPACE on a directory whose get_selection_state is 'none' or
\* 'partial' makes its state 'all' with every file of the subtree selected;
\* on a directory whose state is 'all' it makes the state 'none' with every
\* file of the subtree deselected.
C3_ToggleOnReportedState ==
    [][(Handling("SPACE") /\ OnDirectory) =>
         IF get_selection_state(tree, current_node) = "all"
         THEN /\ get_selection_state(tree', current_node) = "none"
              /\ NoneSelected(tree', current_node)
         ELSE /\ get_selection_state(tree', current_node) = "all"
              /\ AllSelected(tree', current_node)]_vars

\* SPACE has just turned a directory that the frame showed partly selected
\* into a fully selected one
C3_Witness ==
    /\ pc = "display"
    /\ key = "SPACE"
    /\ OnDirectory
    /\ \E f \in DescFiles(tree, current_node) : f \in Range(all_files)
    /\ \E f \in DescFiles(tree, current_node) : f \notin Range(all_files)
    /\ get_selection_state(tree, current_node) = "all"
    /\ AllSelected(tree, current_node)

----------------------------------------------------------------------------
(* C4: Cancel                                                               *)

\* C4: a Cancel event (QUIT, or ESC while search_term is empty) deselects
\* every file node, ends the loop, and run() returns the empty list.
C4_CancelClears ==
    [][CancelEvent =>
         /\ pc' = "done"
         /\ result' = <<>>
         /\ SelectedSet(tree') = {}]_vars

\* run() has returned on QUIT while the last frame reported two or more
\* selected files
C4_Witness ==
    /\ pc = "done"
    /\ key = "QUIT"
    /\ Len(all_files) >= 2
    /\ result = <<>>
    /\ SelectedSet(tree) = {}

----------------------------------------------------------------------------
(* C5: Confirm                                                              *)

\* C5: ENTER ends the loop and run() returns exactly the file nodes whose
\* selected flag is set at that moment, each once; the event changes no
\* selected flag.
C5_ConfirmReturnsSelected ==
    [][ConfirmEvent =>
         /\ pc' = "done"
         /\ \A n \in DOMAIN tree : tree'[n].selected = tree[n].selected
         /\ DOMAIN tree' = DOMAIN tree
         /\ Range(result') = SelectedSet(tree)
         /\ NoDuplicates(result')]_vars

\* run() has returned two or more files on ENTER while others stay
\* unselected
C5_Witness ==
    /\ pc = "done"
    /\ key = "ENTER"
    /\ Len(result) >= 2
    /\ SelectedSet(tree) # FileNodes(tree)
    /\ Range(result) = SelectedSet(tree)

----------------------------------------------------------------------------
(* C6: extraction ordering                                                  *)

\* C6: get_selected_files lists the selected files in the pre-order of the
\* sorted tree (subdirectories before files, then lower-cased name order),
\* so the list is determined by the set of selected files, whatever the
\* order in which they were selected.
C6_ExtractionOrdering ==
    Built =>
        LET s == get_selected_files(tree, root_path)
        IN  /\ Range(s) = SelectedSet(tree)
            /\ \A i, j \in DOMAIN s : i < j => CanonicallyBefore(s[i], s[j])
            /\ pc = "done" /\ key = "ENTER" => result = s

\* all four files of the mixed-case tree are selected: a/y, B/x, c, Z
C6_Witness ==
    /\ Built
    /\ get_selected_files(tree, root_path)
           = <<P(<<"a", "y">>), P(<<"B", "x">>), P(<<"c">>), P(<<"Z">>)>>
    /\ key = "SPACE"

----------------------------------------------------------------------------
(* C7, C8: reconciliation                                                   *)

\* C7: when a directory's path is in the saved folder set, after
\* _apply_saved_selection every file of that directory's subtree is
\* selected, whether or not it is in the saved file set.
C7_FolderEntryCoversSubtree ==
    pc = "ready" =>
        \A d \in saved_folders \cap DirNodes(tree) : AllSelected(tree, d)

\* a saved folder holds a file that the saved file set does not name, next
\* to a stale saved file
C7_Witness ==
    /\ pc = "ready"
    /\ StalePath \in saved_files
    /\ \E d \in saved_folders \cap DirNodes(tree) :
           /\ d # root_path
           /\ \E f \in DescFiles(tree, d) : f \notin saved_files /\ tree[f].selected

\* C8: after reconciliation of a freshly built tree a file node is selected
\* iff its path is in the saved file set or one of its ancestor
\* directories, the root included, is in the saved folder set.
C8_ReconciledSelection ==
    pc = "ready" =>
        \A f \in FileNodes(tree) :
            tree[f].selected <=>
                \/ f \in saved_files
                \/ \E d \in saved_folders : IsPrefix(d, f) /\ d # f

\* only folders are saved; a file under one of them is selected and a file
\* outside is not
C8_Witness ==
    /\ pc = "ready"
    /\ saved_files = {}
    /\ saved_folders # {}
    /\ \E f \in FileNodes(tree) : tree[f].selected
    /\ \E f \in FileNodes(tree) : ~tree[f].selected

----------------------------------------------------------------------------
(* C9: the empty candidate list                                             *)

\* C9: with an empty candidate list run() returns the empty list at once:
\* the loop is never entered, no frame is drawn and no key is read.
C9_EmptyListReturnsAtOnce ==
    files = <<>> =>
        /\ pc \in {"init", "ready", "done"}
        /\ ~frame_shown
        /\ ~key_read
        /\ result = <<>>

\* run() has returned for an empty list
C9_Witness ==
    /\ files = <<>>
    /\ pc = "done"
    /\ result = <<>>
    /\ ~frame_shown

----------------------------------------------------------------------------
(* C10: exits of the loop                                                   *)

\* C10: the loop ends only on Confirm or Cancel: every other event leaves
\* it running, and a Confirm or Cancel event ends it from any state.
C10_ExitsOnlyOnConfirmOrCancel ==
    [][/\ (pc = "handle_key" /\ (ConfirmEvent \/ CancelEvent)) => pc' = "done"
       /\ (pc = "handle_key" /\ ~(ConfirmEvent \/ CancelEvent)) => pc' = "display"
       /\ (pc \in {"display", "get_key"}) => pc' # "done"]_vars

\* ESC with a search term did not end the loop
C10_Witness ==
    /\ pc = "display"
    /\ key = "ESC"
    /\ search_term = ""
    /\ frame_shown

----------------------------------------------------------------------------
(* Vocabulary of the view properties                                        *)

InLoop == pc \in {"display", "get_key", "handle_key"}

SameSelection(t, u) ==
    /\ DOMAIN t = DOMAIN u
    /\ \A n \in DOMAIN t : t[n].selected = u[n].selected

SameExpansion(t, u) ==
    /\ DOMAIN t = DOMAIN u
    /\ \A n \in DOMAIN t : t[n].expanded = u[n].expanded

\* the proper ancestors of a node, the root included
Ancestors(t, n) == {a \in DOMAIN t : IsPrefix(a, n) /\ a # n}

\* the pre-order of two nodes of the sorted tree: an ancestor precedes its
\* descendants; otherwise the parts where the paths part ways decide,
\* directories before files and like kinds by lower-cased name
NodeBefore(t, p, q) ==
    IF IsPrefix(p, q) \/ IsPrefix(q, p)
    THEN Len(p) < Len(q)
    ELSE LET i == FirstDiff(p, q)
             pdir == i < Len(p) \/ ~t[p].is_file
             qdir == i < Len(q) \/ ~t[q].is_file
         IN  \/ pdir /\ ~qdir
             \/ pdir = qdir /\ ord(lower(p[i])) <= ord(lower(q[i]))

PageWindow(pos, page) ==
    page * page_size <= pos /\ pos < (page + 1) * page_size

----------------------------------------------------------------------------
(* C11: ESC with a search term                                              *)

\* C11: ESC while search_term is non-empty only empties search_term: the
\* loop goes on and every selected flag, every expanded flag, the cursor
\* and the page stay as they are; the state it leaves makes the next ESC a
\* Cancel.
C11_EscClearsSearchOnly ==
    [][(Handling("ESC") /\ search_term # "") =>
         /\ search_term' = ""
         /\ pc' = "display"
         /\ tree' = tree
         /\ current_pos' = current_pos
         /\ current_page' = current_page
         /\ (key' = "ESC" /\ search_term' = "")]_vars

\* ESC has emptied the search term; the selection, a moved cursor and a
\* collapsed directory are still there
C11_Witness ==
    /\ pc = "display"
    /\ key = "ESC"
    /\ search_term = ""
    /\ SelectedSet(tree) # {}
    /\ Range(all_files) = SelectedSet(tree)
    /\ current_pos > 0
    /\ \E d \in DirNodes(tree) : ~tree[d].expanded

----------------------------------------------------------------------------
(* C12: Select-all, Select-none, Reset                                      *)

\* C12: after ALL every file node is selected and the root's state is
\* 'all'; after NONE every file node is unselected and the root's state is
\* 'none'; 'r'/'R' leaves exactly the state NONE leaves: the file flags
\* cleared and nothing else changed.
C12_SelectAllNoneReset ==
    [][/\ Handling("ALL") =>
            /\ SelectedSet(tree') = FileNodes(tree')
            /\ get_selection_state(tree', root_path) = "all"
       /\ (pc = "handle_key" /\ key \in {"NONE", "r", "R"}) =>
            /\ SelectedSet(tree') = {}
            /\ get_selection_state(tree', root_path) = "none"
            /\ tree' = [n \in DOMAIN tree |->
                           [tree[n] EXCEPT !.selected =
                                IF tree[n].is_file THEN FALSE ELSE @]]
            /\ UNCHANGED <<current_pos, current_page, search_term>>
            /\ pc' = "display"]_vars

\* 'r' has cleared a selection the frame still reports, with a directory
\* collapsed and the cursor moved
C12_Witness ==
    /\ pc = "display"
    /\ key = "r"
    /\ Len(all_files) >= 2
    /\ SelectedSet(tree) = {}
    /\ current_pos > 0
    /\ \E d \in DirNodes(tree) : ~tree[d].expanded

----------------------------------------------------------------------------
(* C13, C14: bounds of the cursor and of the page                           *)

\* C13: after every event the cursor is a valid index into the visible
\* list: 0 <= current_pos < len(visible nodes).
C13_CursorInBounds ==
    InLoop => (0 <= current_pos /\ current_pos < Len(visible_nodes))

\* C14: after every event 0 <= current_page <= totalPages - 1, totalPages
\* being computed on the visible list after the event.
C14_PageInBounds ==
    InLoop => (0 <= current_page /\ current_page <= total_pages - 1)

----------------------------------------------------------------------------
(* C15, C16: ignore patterns                                                *)

Checked == pc = "checked" /\ IsPrefix(root_path, candidate_path)

Segments == relative_parts(candidate_path)

\* C15: a pattern with a trailing slash ignores a path under the root iff
\* some whole segment of the path, the file name included, glob-matches the
\* pattern without the slash; 'node_modules/' ignores node_modules/x.js and
\* a/b/node_modules/y.js but not my_node_modules_folder/y.js.
C15_TrailingSlashPattern ==
    Checked =>
        /\ \A k \in DOMAIN gitignore_patterns :
               LET raw == gitignore_patterns[k]
                   bare == SubSeq(raw, 1, Len(raw) - 1)
                   dir_pattern == IF startswith(bare, "/") THEN Tail(bare)
                                  ELSE bare
                   hit == \E i \in DOMAIN Segments :
                              fnmatch(Segments[i], dir_pattern)
               IN  endswith(raw, "/") =>
                       /\ hit => ignored
                       /\ Len(gitignore_patterns) = 1 => (ignored <=> hit)
        /\ gitignore_patterns = <<"node_modules/">> =>
               (ignored <=> candidate_path \in
                                {P(<<"node_modules", "x.js">>),
                                 P(<<"a", "b", "node_modules", "y.js">>),
                                 P(<<"src", "node_modules">>)})

\* a file whose own name matches is ignored by the directory pattern
C15_Witness ==
    /\ Checked
    /\ gitignore_patterns = <<"node_modules/">>
    /\ candidate_path = P(<<"src", "node_modules">>)
    /\ ignored

\* C16: '*.log' ignores app.log and logs/app.log but not app.log.bak; a
\* path under the root is ignored by '*.log' iff one of its segments ends
\* in '.log'.
C16_StarDotLog ==
    (Checked /\ gitignore_patterns = <<"*.log">>) =>
        /\ ignored <=> \E i \in DOMAIN Segments : endswith(Segments[i], ".log")
        /\ candidate_path \in {P(<<"app.log">>), P(<<"logs", "app.log">>)}
               => ignored
        /\ candidate_path = P(<<"app.log.bak">>) => ~ignored

\* a directory segment ending in '.log' gets the file below it ignored
C16_Witness ==
    /\ Checked
    /\ gitignore_patterns = <<"*.log">>
    /\ candidate_path = P(<<"x.log", "readme.txt">>)
    /\ ignored

----------------------------------------------------------------------------
(* C17: Move and the page window                                            *)

\* C17: if the cursor is in the window of the current page before UP or
\* DOWN, then after the event it has moved by at most one position, lies in
\* [0, len(visible) - 1], and is in the window of the current page again.
C17_MoveKeepsCursorOnPage ==
    [][(pc = "handle_key" /\ key \in {"UP", "DOWN"}
          /\ PageWindow(current_pos, current_page)) =>
         /\ current_pos' - current_pos \in {-1, 0, 1}
         /\ 0 <= current_pos'
         /\ current_pos' <= Len(_get_visible_nodes(tree')) - 1
         /\ PageWindow(current_pos', current_page')]_vars

----------------------------------------------------------------------------
(* C18: the visible list                                                    *)

\* C18: a node is listed iff it is not the root and all its proper
\* ancestors are expanded, once, in the pre-order of the sorted tree, with
\* its depth; so the list is fixed by the expanded flags, whatever the
\* search term, the cursor and the page.
C18_VisibleListFromExpandedOnly ==
    Built =>
        LET v == _get_visible_nodes(tree)
        IN  /\ {v[i][1] : i \in DOMAIN v} =
                   {n \in DOMAIN tree \ {root_path} :
                        \A a \in Ancestors(tree, n) : tree[a].expanded}
            /\ \A i, j \in DOMAIN v :
                   i < j => NodeBefore(tree, v[i][1], v[j][1])
            /\ \A i \in DOMAIN v : v[i][2] = Len(v[i][1]) - Len(root_path)

\* a search term is set, the cursor has moved, and a collapsed directory
\* hides its rows
C18_Witness ==
    /\ pc = "display"
    /\ search_term # ""
    /\ current_pos > 0
    /\ \E d \in DirNodes(tree) :
           /\ ~tree[d].expanded
           /\ \A i \in DOMAIN visible_nodes :
                  ~(IsPrefix(d, visible_nodes[i][1]) /\ visible_nodes[i][1] # d)
    /\ Len(visible_nodes) >= 2

----------------------------------------------------------------------------
(* C19: the root stays expanded                                             *)

\* C19: the root directory is expanded in every state, so with a non-empty
\* candidate list the visible list is non-empty at every render.
C19_RootExpanded ==
    Built =>
        /\ tree[root_path].expanded
        /\ files # <<>> => _get_visible_nodes(tree) # <<>>

\* COLLAPSE has closed every directory but the root
C19_Witness ==
    /\ pc = "display"
    /\ key = "COLLAPSE"
    /\ tree[root_path].expanded
    /\ \A d \in DirNodes(tree) \ {root_path} : ~tree[d].expanded
    /\ Len(visible_nodes) >= 2

----------------------------------------------------------------------------
(* C20: selection events and view events                                    *)

\* C20: SPACE, ALL, NONE and 'r'/'R' change no expanded flag, nor the
\* cursor, nor the page; RIGHT, LEFT, EXPAND, COLLAPSE, UP and DOWN change
\* no selected flag.
C20_SelectionAndViewIndependent ==
    [][/\ (pc = "handle_key" /\ key \in {"SPACE", "ALL", "NONE", "r", "R"}) =>
            /\ SameExpansion(tree, tree')
            /\ current_pos' = current_pos
            /\ current_page' = current_page
       /\ (pc = "handle_key"
             /\ key \in {"RIGHT", "LEFT", "EXPAND", "COLLAPSE", "UP", "DOWN"}) =>
            SameSelection(tree, tree')]_vars

\* ALL has selected everything with the cursor away from the top and a
\* directory collapsed
C20_Witness ==
    /\ pc = "display"
    /\ key = "ALL"
    /\ SelectedSet(tree) = FileNodes(tree)
    /\ Len(all_files) < Cardinality(FileNodes(tree))
    /\ current_pos > 0
    /\ \E d \in DirNodes(tree) : ~tree[d].expanded

----------------------------------------------------------------------------
(* Vocabulary of the frame properties                                       *)

\* the cursor designates a row
OnRow == current_pos < Len(visible_nodes)

\* the nodes of the rows, in order
RowNodes(t) ==
    LET v == _get_visible_nodes(t)
    IN  [i \in DOMAIN v |-> v[i][1]]

\* lower-cased names are in order, directories before files
ChildrenInOrder(t, kids) ==
    \A i, j \in DOMAIN kids :
        i < j =>
            /\ t[kids[i]].is_file => t[kids[j]].is_file
            /\ t[kids[i]].is_file = t[kids[j]].is_file =>
                   ord(lower(name(kids[i]))) <= ord(lower(name(kids[j])))

\* the tree with the selected attribute of every directory set to b
WithDirFlags(t, b) ==
    [n \in DOMAIN t |->
        IF t[n].is_file THEN t[n] ELSE [t[n] EXCEPT !.selected = b]]

----------------------------------------------------------------------------
(* C21: what SPACE changes                                                  *)

\* C21: SPACE on a file row flips the selected flag of that file and leaves
\* the flag of every other file as it is; SPACE on a directory row changes
\* selected flags of files of that directory's subtree only.
C21_ActivateFrame ==
    [][(Handling("SPACE") /\ OnRow) =>
         /\ DOMAIN tree' = DOMAIN tree
         /\ IF tree[current_node].is_file
            THEN /\ tree'[current_node].selected = ~tree[current_node].selected
                 /\ \A f \in FileNodes(tree) \ {current_node} :
                        tree'[f].selected = tree[f].selected
            ELSE \A f \in FileNodes(tree) \ DescFiles(tree, current_node) :
                     tree'[f].selected = tree[f].selected]_vars

\* SPACE on a directory has selected a file of its subtree while, outside
\* the subtree, one file stays selected and another stays unselected
C21_Witness ==
    /\ pc = "display"
    /\ key = "SPACE"
    /\ OnDirectory
    /\ \E f \in DescFiles(tree, current_node) :
           f \notin Range(all_files) /\ tree[f].selected
    /\ \E g \in FileNodes(tree) \ DescFiles(tree, current_node) :
           g \in Range(all_files) /\ tree[g].selected
    /\ \E h \in FileNodes(tree) \ DescFiles(tree, current_node) :
           h \notin Range(all_files) /\ ~tree[h].selected

----------------------------------------------------------------------------
(* C22: RIGHT and LEFT                                                      *)

\* C22: RIGHT / LEFT on a directory row set that directory's expanded flag
\* to true / false and change no other node's expanded flag; on a file row
\* they change nothing; either way the cursor index is unchanged, is a
\* valid index of the new visible list and designates the same node.
C22_ExpandCollapseAtCursor ==
    [][(pc = "handle_key" /\ key \in {"RIGHT", "LEFT"} /\ OnRow) =>
         /\ SameSelection(tree, tree')
         /\ IF tree[current_node].is_file
            THEN tree' = tree
            ELSE /\ tree'[current_node].expanded = (key = "RIGHT")
                 /\ \A m \in DOMAIN tree \ {current_node} :
                        tree'[m].expanded = tree[m].expanded
         /\ current_pos' = current_pos
         /\ current_page' = current_page
         /\ current_pos' < Len(_get_visible_nodes(tree'))
         /\ RowNodes(tree')[current_pos' + 1] = current_node]_vars

\* LEFT has closed the directory under the cursor, which is not the first
\* row, while another directory stays open
C22_Witness ==
    /\ pc = "display"
    /\ key = "LEFT"
    /\ OnDirectory
    /\ current_pos > 0
    /\ ~tree[current_node].expanded
    /\ \E d \in DirNodes(tree) \ {root_path, current_node} : tree[d].expanded

----------------------------------------------------------------------------
(* C23: EXPAND and COLLAPSE                                                 *)

\* C23: after EXPAND every directory is expanded and the visible list holds
\* every node but the root; after COLLAPSE the root is expanded, every
\* other directory is collapsed and the visible list is the list of the
\* root's children.
C23_ExpandAllCollapseAll ==
    [][/\ Handling("EXPAND") =>
            /\ \A d \in DirNodes(tree') : tree'[d].expanded
            /\ Range(RowNodes(tree')) = DOMAIN tree' \ {root_path}
            /\ Len(RowNodes(tree')) = Cardinality(DOMAIN tree') - 1
       /\ Handling("COLLAPSE") =>
            /\ tree'[root_path].expanded
            /\ \A d \in DirNodes(tree') \ {root_path} : ~tree'[d].expanded
            /\ RowNodes(tree') = tree'[root_path].children]_vars

\* EXPAND has opened a tree with a directory inside a directory
C23_Witness ==
    /\ pc = "display"
    /\ key = "EXPAND"
    /\ \A d \in DirNodes(tree) : tree[d].expanded
    /\ \E d \in DirNodes(tree) : Len(d) = Len(root_path) + 2
    /\ Len(visible_nodes) = Cardinality(DOMAIN tree) - 1

----------------------------------------------------------------------------
(* C24: the constructed tree                                                *)

\* C24: built from distinct paths under the root, the tree has exactly one
\* file leaf per input path (get_file_count(root) = number of paths), no
\* directory has two child directories of one name, every node but the
\* root is a child of the node whose path is its own path minus the last
\* segment, and the children of every directory are ordered directories
\* first, then by lower-cased name.
C24_ConstructedTree ==
    Built =>
        /\ get_file_count(tree, root_path) = Len(files)
        /\ FileNodes(tree) = Range(files)
        /\ \A d \in DirNodes(tree) :
               LET kids == tree[d].children
               IN  /\ NoDuplicates(kids)
                   /\ \A i, j \in DOMAIN kids :
                          (i # j /\ ~tree[kids[i]].is_file
                                 /\ ~tree[kids[j]].is_file)
                              => name(kids[i]) # name(kids[j])
                   /\ ChildrenInOrder(tree, kids)
                   /\ \A i \in DOMAIN kids : tree[kids[i]].parent = <<d>>
        /\ \A f \in FileNodes(tree) : tree[f].children = <<>>
        /\ tree[root_path].parent = <<>>
        /\ \A n \in DOMAIN tree \ {root_path} :
               /\ tree[n].path = n
               /\ tree[n].parent = <<SubSeq(n, 1, Len(n) - 1)>>
               /\ n \in Range(tree[tree[n].parent[1]].children)

\* the tree of d/z, d/a/x, d/a/y: directory a was created once, used twice
\* and sorted before the file z
C24_Witness ==
    /\ pc = "ready"
    /\ files = <<P(<<"d", "z">>), P(<<"d", "a", "x">>), P(<<"d", "a", "y">>)>>
    /\ tree[P(<<"d">>)].children = <<P(<<"d", "a">>), P(<<"d", "z">>)>>
    /\ tree[P(<<"d", "a">>)].children
           = <<P(<<"d", "a", "x">>), P(<<"d", "a", "y">>)>>

----------------------------------------------------------------------------
(* C25: no directory without files                                          *)

\* C25: every directory of a non-empty tree has a descendant file, so
\* set_selected_recursive(True) on it leaves its state 'all' and
\* set_selected_recursive(False) leaves its state 'none'.
C25_DirectoriesHoldFiles ==
    (Built /\ files # <<>>) =>
        \A d \in DirNodes(tree) :
            /\ DescFiles(tree, d) # {}
            /\ get_file_count(tree, d) >= 1
            /\ get_selection_state(set_selected_recursive(tree, d, TRUE), d)
                   = "all"
            /\ get_selection_state(set_selected_recursive(tree, d, FALSE), d)
                   = "none"

\* a directory holding a directory is partly selected, the inner directory
\* not at all
C25_Witness ==
    /\ pc = "get_key"
    /\ \E d \in DirNodes(tree) \ {root_path} :
           /\ get_selection_state(tree, d) = "partial"
           /\ \E e \in DirNodes(tree) \ {d} :
                  IsPrefix(d, e) /\ get_selection_state(tree, e) = "none"

----------------------------------------------------------------------------
(* C26: selection is stored at the files only                               *)

\* C26: in every state the stored selected attribute of every directory is
\* false, and get_selection_state of a directory yields the same value
\* whatever the directories' selected attributes hold.
C26_SelectionAtLeavesOnly ==
    Built =>
        \A d \in DirNodes(tree) :
            /\ ~tree[d].selected
            /\ get_selection_state(WithDirFlags(tree, TRUE), d)
                   = get_selection_state(tree, d)
            /\ get_selection_state(WithDirFlags(tree, FALSE), d)
                   = get_selection_state(tree, d)

\* a saved folder has been applied and SPACE has then selected another
\* directory: the directories' own attributes are still false
C26_Witness ==
    /\ pc = "display"
    /\ key = "SPACE"
    /\ OnDirectory
    /\ current_node # root_path
    /\ get_selection_state(tree, current_node) = "all"
    /\ SelectedSet(tree) = FileNodes(tree)
    /\ all_files # <<>>
    /\ Len(all_files) < Cardinality(FileNodes(tree))
    /\ \A d \in DirNodes(tree) : ~tree[d].selected

----------------------------------------------------------------------------
(* C27: a candidate that is not under the root                              *)

\* C27: a candidate path that cannot be expressed relative to the root is
\* skipped and the remaining paths are inserted: tree construction does not
\* raise, and the tree holds the candidates under the root.
C27_OffRootPathSkipped ==
    /\ pc # "raised"
    /\ Built => FileNodes(tree) = {f \in Range(files) : IsPrefix(root_path, f)}

----------------------------------------------------------------------------
(* C28: the key reader after ESC                                            *)

\* C28: once the reader has read an ESC character it never waits for a
\* further keystroke: whatever follows (nothing, one character, two or
\* more), every read it is at can return with the characters already there.
C28_EscNeverBlocks ==
    pc \in {"select", "read_seq", "read_tilde"} =>
        ENABLED (SelectNextChars \/ ReadNextChars \/ ReadTilde)

----------------------------------------------------------------------------
(* C29, C30: the directory denylist                                         *)

Filtered == pc = "filtered"

\* the candidate as the collector sees it
AbsolutePath == scan_parent \o candidate_path

Denylisted(segment) ==
    segment \in {"vendor", "venv", ".git", ".vscode", "__pycache__",
                 "node_modules"}

\* C29: the denylist excludes a candidate file iff some ancestor directory
\* segment of its path (the absolute path the collector holds) has a
\* denylisted name; a file whose own name is denylisted, under ancestors
\* that are not, is not excluded.
C29_DenylistOnAncestors ==
    Filtered =>
        LET ancestor_hit == \E i \in 1..(Len(AbsolutePath) - 1) :
                                Denylisted(AbsolutePath[i])
        IN  /\ skipped <=> ancestor_hit
            /\ (Denylisted(name(AbsolutePath)) /\ ~ancestor_hit) => ~skipped

\* the file src/node_modules is kept
C29_Witness ==
    /\ Filtered
    /\ candidate_path = P(<<"src", "node_modules">>)
    /\ scan_parent = <<"home", "u">>
    /\ ~skipped

\* C30: whether a file under the scan root is excluded by the denylist
\* depends on its root-relative path only: the same tree scanned under any
\* other parent directory gives the same answer for the file.
C30_DenylistIgnoresLocation ==
    (Filtered /\ IsPrefix(root_path, candidate_path)) =>
        \A elsewhere \in ScanParents :
            in_skipped_directory(elsewhere \o candidate_path) = skipped

----------------------------------------------------------------------------
(* C31: a leading slash on a pattern                                        *)

\* the pattern list with every pattern's leading slash taken away, or added
\* where there is none
SlashToggled(patterns) ==
    [k \in DOMAIN patterns |->
        IF startswith(patterns[k], "/") THEN Tail(patterns[k])
        ELSE "/" \o patterns[k]]

\* C31: a leading '/' is stripped before matching: for every path under
\* the root the patterns '/p' and 'p' give the same decision, alone and
\* inside a list.
C31_LeadingSlashStripped ==
    Checked =>
        /\ ignored = is_ignored_by_gitignore(candidate_path,
                                             SlashToggled(gitignore_patterns))
        /\ \A k \in DOMAIN gitignore_patterns :
               is_ignored_by_gitignore(candidate_path,
                                       <<gitignore_patterns[k]>>)
                 = is_ignored_by_gitignore(
                       candidate_path, <<SlashToggled(gitignore_patterns)[k]>>)

\* '/*.log' ignores a file two levels down
C31_Witness ==
    /\ Checked
    /\ gitignore_patterns = <<"/*.log">>
    /\ candidate_path = P(<<"logs", "app.log">>)
    /\ ignored

----------------------------------------------------------------------------
(* C32: keys outside the vocabulary                                         *)

HandledKeys == {"UP", "DOWN", "SPACE", "RIGHT", "LEFT", "EXPAND", "COLLAPSE",
                "ENTER", "QUIT", "ESC", "ALL", "NONE", "FIND", "r", "R"}

\* C32: a key outside the handled vocabulary (PAGEUP, PAGEDOWN, any other
\* raw character) changes neither the tree nor the cursor nor the page nor
\* the search term, and the loop goes on.
C32_UnknownKeyIsNoOp ==
    [][(pc = "handle_key" /\ key \notin HandledKeys) =>
         /\ tree' = tree
         /\ current_pos' = current_pos
         /\ current_page' = current_page
         /\ search_term' = search_term
         /\ pc' = "display"]_vars

\* PAGEDOWN on the first of several pages, with a selection, a search term
\* and a moved cursor: all still there
C32_Witness ==
    /\ pc = "display"
    /\ key = "PAGEDOWN"
    /\ total_pages > 1
    /\ current_page = 0
    /\ current_pos > 0
    /\ search_term # ""
    /\ SelectedSet(tree) # {}
    /\ Range(all_files) = SelectedSet(tree)

----------------------------------------------------------------------------
(* C34: the order of the candidate list                                     *)

\* C34: the built tree depends on the set of candidate paths only: every
\* ordering of the candidate list gives the same children, in the same
\* order, in every directory, hence the same visible list and the same
\* order of get_selected_files.
C34_TreeFromSetOnly ==
    pc = "ready" =>
        \A fs \in Orderings(files) :
            LET u == _build_file_tree(fs)
                built == _build_file_tree(files)
            IN  /\ DOMAIN u = DOMAIN tree
                /\ \A n \in DOMAIN u : u[n].children = tree[n].children
                /\ _get_visible_nodes(u) = _get_visible_nodes(built)
                /\ get_selected_files(set_selected_recursive(u, root_path, TRUE),
                                      root_path)
                     = get_selected_files(
                           set_selected_recursive(built, root_path, TRUE),
                           root_path)

----------------------------------------------------------------------------
(* C35: the selection across two sessions                                   *)

\* the selector of the session after a confirmed selection has been built
Resumed == pc = "ready" /\ key = "ENTER"

\* C35: when a session has confirmed a non-empty selection S and the next
\* session scans the same files, the tree of the next session, before any
\* key is read, has get_selected_files() = S.
C35_SelectionRoundTrip ==
    Resumed => get_selected_files(tree, root_path) = result

----------------------------------------------------------------------------
(* C33, C36: two selectors on the same keys                                 *)

\* both selectors have handled the same keys: both wait for the next one,
\* or the first one has read it and the second one has not handled it yet,
\* or the first one has returned
Synced ==
    /\ other # <<>>
    /\ other.pc # "start"
    /\ \/ pc \in {"display", "get_key", "done"}
       \/ pc = "handle_key" /\ other.pc = "get_key"

\* C33: pagination does not influence the result: a selector with
\* page_size 18 that gets the candidate list, the saved selection and the
\* keys of a selector with another page_size has, after every key, the
\* same cursor index, the same tree and the same search term, stops at the
\* same key and returns the same list.
C33_PageSizeWithoutInfluence ==
    (Synced /\ other.kind = "resized") =>
        /\ other.current_pos = current_pos
        /\ other.tree = tree
        /\ other.search_term = search_term
        /\ (pc = "done") <=> (other.pc = "done")
        /\ pc = "done" => other.result = result

\* ENTER on a non-empty selection while the two selectors show different
\* pages
C33_Witness ==
    /\ Synced
    /\ other.kind = "resized"
    /\ pc = "done"
    /\ key = "ENTER"
    /\ result # <<>>
    /\ other.result = result
    /\ current_page > 0
    /\ other.current_page = 0

\* C36: interactive_tree_selector and InteractiveSelector.run, given the
\* same non-empty candidate list, the same saved selection and the same
\* keys without the Reset key, return at the same key and return the same
\* list.
C36_LegacyEquivalent ==
    (Synced /\ other.kind = "legacy") =>
        /\ (pc = "done") <=> (other.pc = "done")
        /\ pc = "done" => other.result = result

====
